---- MODULE Spec2Model ----
(***************************************************************************)
(* The batch image-validation engine of src/src/middleware/logger.ts:      *)
(* checkImages, processImageBatch, validateSingleImage, cleanupCache,      *)
(* clearImageCache, getCacheStats and the process-wide imageCache.         *)
(*                                                                         *)
(* JavaScript runs each handler to its next await, so one action is one    *)
(* run-to-completion step: the synchronous part of checkImages up to the   *)
(* launch of the first group, the continuation of one fetch, the firing of *)
(* one backoff or pacing timer, the continuation of Promise.allSettled.    *)
(*                                                                         *)
(* Strings the code only compares are records; strings the code searches   *)
(* with includes() are sequences of words, and includes(w) is "some word   *)
(* is w" (so "Timeout" does not contain "timeout", as in the code).        *)
(* Date.now() is the variable now, which advances by Tick.                 *)
(***************************************************************************)
EXTENDS Integers, Sequences, FiniteSets, TLC

VARIABLES
  imageCache,  \* logger.ts:19    url -> {valid, message, timestamp} or NoEntry
  now,         \* Date.now()
  pc,          \* per invocation: "idle", "batch", "pacing", "done"
  body,        \* per invocation: ctx.request.body
  images,      \* per invocation: uniqueImages, the argument of processImageBatch
  pos,         \* per invocation: the loop variable i of processImageBatch
  tasks,       \* per invocation: one validateSingleImage promise per image
  results,     \* per invocation: the results array of processImageBatch
  ctxStatus,   \* per invocation: ctx.status (0: not set)
  ctxBody,     \* per invocation: ctx.body
  pauses,      \* per invocation: pacing delays taken so far
  calls,       \* invocations of checkImages started so far
  call,        \* per invocation: its number among them (0: none yet)
  history,     \* url -> the validations of it that settled, oldest first
  stats,       \* what the last call of getCacheStats returned
  cleared,     \* the URLs not stored since the last clearImageCache
  unswept      \* imageCache as it would be had cleanupCache never run

vars == <<imageCache, now, pc, body, images, pos, tasks, results,
          ctxStatus, ctxBody, pauses, calls, call, history, stats, cleared,
          unswept>>

(***************************************************************************)
(* Program constants.                                                      *)
(***************************************************************************)
CONCURRENT_REQUESTS == 3

RETRY_ATTEMPTS == 2

CACHE_TTL == 5 * 60 * 1000

MAX_CONTENT_LENGTH == 10 * 1024 * 1024

(***************************************************************************)
(* Bounds of the model.                                                    *)
(***************************************************************************)
\* Longest request body enumerated in full.
MaxLen == 3

\* Invocations of checkImages in one behaviour, where the specification does
\* not fix their number.
MaxCalls == 2

\* The clock runs from 0 to MaxTicks times the TTL.
MaxTicks == 2

\* Validations of one URL in a row where the claim is about repeated hits.
MaxRepeats == 4

\* The invocations that may be in progress at once.
InvIds == {1, 2}

Min(a, b) == IF a < b THEN a ELSE b

(***************************************************************************)
(* Request bodies.  The value of an imageUrl field is undefined, a number  *)
(* or a string; a string is its scheme (the text before the first ":",     *)
(* empty when there is none) and the rest.                                 *)
(***************************************************************************)
Str(scheme, rest) == [t |-> "string", scheme |-> scheme, rest |-> rest]

Undefined == [t |-> "undefined", scheme |-> "", rest |-> ""]

Number7 == [t |-> "number", scheme |-> "", rest |-> "7"]

EmptyStr == Str("", "")

NotAUrl == Str("", "not-a-url")

U1 == Str("https", "//a/1.jpg")

U2 == Str("https", "//a/2.jpg")

U3 == Str("https", "//a/3.jpg")

U4 == Str("https", "//a/4.jpg")

U5 == Str("https", "//a/5.jpg")

U6 == Str("https", "//a/6.jpg")

U7 == Str("https", "//a/7.jpg")

\* U1 with its scheme in upper case: another string, the same resource.
U1Upper == Str("HTTPS", "//a/1.jpg")

Urls == {U1, U2, U3, U4, U5, U6, U7, U1Upper}

Image(v) == [imageUrl |-> v]

ArrayBody(items) == [kind |-> "array", items |-> items]

ObjectBody == [kind |-> "object", items |-> <<>>]

UndefinedBody == [kind |-> "undefined", items |-> <<>>]

(***************************************************************************)
(* checkImages, lines 187-223: the shape checks, the filter of well-formed *)
(* URLs and the removal of duplicates.                                     *)
(***************************************************************************)
\* request.body || []
ImagesOf(b) == IF b.kind = "undefined" THEN ArrayBody(<<>>) ELSE b

\* JavaScript truthiness of an imageUrl value: "" and undefined are falsy.
Truthy(v) == v.t = "number" \/ (v.t = "string" /\ v # EmptyStr)

\* new URL(s) with no base succeeds exactly when s starts with a scheme.
URLParses(v) == v.scheme # ""

\* The callback of images.filter, lines 202-212.
IsValidImage(image) ==
  IF ~Truthy(image.imageUrl) \/ image.imageUrl.t # "string"
  THEN FALSE
  ELSE URLParses(image.imageUrl)

\* The elements of s at the indexes in I, in the order of s.
RECURSIVE Pick(_, _, _)
Pick(s, I, i) ==
  IF i > Len(s) THEN <<>>
  ELSE (IF i \in I THEN <<s[i]>> ELSE <<>>) \o Pick(s, I, i + 1)

ValidImages(items) ==
  Pick(items, {i \in DOMAIN items : IsValidImage(items[i])}, 1)

\* self.findIndex(i => i.imageUrl === image.imageUrl), 1-based.
FindIndex(self, url) ==
  CHOOSE i \in DOMAIN self :
    /\ self[i].imageUrl = url
    /\ \A j \in 1..(i - 1) : self[j].imageUrl # url

\* A plausible slip: URLs compared after folding the scheme's case.
UniqueImagesFolded(self) ==
  LET Fold(v) == IF v.scheme = "HTTPS" THEN Str("https", v.rest) ELSE v
  IN  Pick(self, {i \in DOMAIN self :
                    \A j \in 1..(i - 1) : Fold(self[j].imageUrl) # Fold(self[i].imageUrl)}, 1)

\* Lines 221-223.
UniqueImages(self) ==
  Pick(self, {i \in DOMAIN self : i = FindIndex(self, self[i].imageUrl)}, 1)

(***************************************************************************)
(* The cache, lines 19-20, 45-46 and 172-179.                              *)
(***************************************************************************)
NoEntry == [valid |-> FALSE, message |-> <<>>, timestamp |-> -1]

\* A plausible slip: an entry exactly TTL old still counts as fresh.
CacheHitInclusive(cache, url, t) ==
  cache[url] # NoEntry /\ (t - cache[url].timestamp) <= CACHE_TTL

\* A plausible slip: only successes are answered from the cache.
CacheHitValidOnly(cache, url, t) ==
  cache[url] # NoEntry /\ cache[url].valid /\ (t - cache[url].timestamp) < CACHE_TTL

\* A plausible slip: the lookup leaves the test of freshness to the sweep.
CacheHitUnchecked(cache, url, t) == cache[url] # NoEntry

\* Line 46: cached && (Date.now() - cached.timestamp) < CACHE_TTL
CacheHit(cache, url, t) ==
  cache[url] # NoEntry /\ (t - cache[url].timestamp) < CACHE_TTL

\* A plausible slip: the sweep drops every entry, fresh ones too.
CleanupCacheAll(cache, t) == [u \in Urls |-> NoEntry]

\* cleanupCache, lines 172-179.
CleanupCache(cache, t) ==
  [u \in Urls |->
     IF cache[u] # NoEntry /\ t - cache[u].timestamp > CACHE_TTL
     THEN NoEntry ELSE cache[u]]

\* A plausible slip: only the expired entries are dropped.
ClearedExpiredOnly == CleanupCache(imageCache, now)

\* imageCache.clear(), line 253.
ClearedCache == [u \in Urls |-> NoEntry]

\* A quotient of two counts as JavaScript computes it: 0 / 0 is NaN.
Divide(n, d) == [nan |-> d = 0, num |-> n, den |-> d]

Zero == [nan |-> FALSE, num |-> 0, den |-> 1]

\* x || 0: NaN and 0 are falsy.
OrZero(x) == IF x.nan \/ x.num = 0 THEN Zero ELSE x

\* A plausible slip: an entry exactly TTL old is counted as fresh.
FreshInclusive(e, t) == t - e.timestamp <= CACHE_TTL

\* Line 261: now - data.timestamp < CACHE_TTL.
Fresh(e, t) == t - e.timestamp < CACHE_TTL

\* getCacheStats, lines 258-269.
GetCacheStats(cache, t) ==
  LET entries == {u \in Urls : cache[u] # NoEntry}
      validEntries == {u \in entries : Fresh(cache[u], t)}
  IN  [totalEntries |-> Cardinality(entries),
       validEntries |-> Cardinality(validEntries),
       expiredEntries |-> Cardinality(entries) - Cardinality(validEntries),
       cacheHitRatio |->
         OrZero(Divide(Cardinality({u \in validEntries : cache[u].valid}),
                       Cardinality(validEntries)))]

\* stats before getCacheStats was ever called.
NoStats == [totalEntries |-> -1, validEntries |-> -1, expiredEntries |-> -1,
            cacheHitRatio |-> Zero]

(***************************************************************************)
(* What one fetch can end with: a response (status, headers) or a thrown   *)
(* value.  Texts are sequences of words.                                   *)
(***************************************************************************)
Response(id, ok, status, statusText, contentType, hasLen, len) ==
  [id |-> id, k |-> "response", ok |-> ok, status |-> status,
   statusText |-> statusText, contentType |-> contentType,
   hasLen |-> hasLen, len |-> len,
   isError |-> FALSE, name |-> "", msgIsString |-> FALSE, message |-> <<>>]

Thrown(id, isError, name, msgIsString, message) ==
  [id |-> id, k |-> "throw", ok |-> FALSE, status |-> "", statusText |-> <<>>,
   contentType |-> <<>>, hasLen |-> FALSE, len |-> 0,
   isError |-> isError, name |-> name, msgIsString |-> msgIsString,
   message |-> message]

OkPng == Response("OkPng", TRUE, "200", <<"OK">>, <<"image/", "png">>, TRUE, 1024)

OkNoLength == Response("OkNoLength", TRUE, "200", <<"OK">>, <<"image/", "jpeg">>, FALSE, 0)

OkAtLimit ==
  Response("OkAtLimit", TRUE, "200", <<"OK">>, <<"image/", "png">>, TRUE, MAX_CONTENT_LENGTH)

TooLarge ==
  Response("TooLarge", TRUE, "200", <<"OK">>, <<"image/", "png">>, TRUE, MAX_CONTENT_LENGTH + 1)

Html == Response("Html", TRUE, "200", <<"OK">>, <<"text/", "html">>, FALSE, 0)

NoContentType == Response("NoContentType", TRUE, "200", <<"OK">>, <<>>, FALSE, 0)

NotFound == Response("NotFound", FALSE, "404", <<"Not", "Found">>, <<"text/", "html">>, FALSE, 0)

\* Node's reason phrase for 504.
GatewayTimeout ==
  Response("GatewayTimeout", FALSE, "504", <<"Gateway", "Timeout">>, <<>>, FALSE, 0)

\* The reason phrase is free text of the server: here in lower case.
GatewayTimeoutLower ==
  Response("GatewayTimeoutLower", FALSE, "504", <<"Gateway", "timeout">>, <<>>, FALSE, 0)

\* content-type: text/html; timeout=5
HtmlTimeoutParam ==
  Response("HtmlTimeoutParam", TRUE, "200", <<"OK">>,
           <<"text/", "html;", "timeout", "=5">>, FALSE, 0)

\* The AbortController of createTimeoutFetch fired (lines 24-25).
Aborted ==
  Thrown("Aborted", TRUE, "AbortError", TRUE, <<"This", "operation", "was", "aborted">>)

ConnReset == Thrown("ConnReset", TRUE, "Error", TRUE, <<"read", "ECONNRESET">>)

ConnTimedOut == Thrown("ConnTimedOut", TRUE, "Error", TRUE, <<"connect", "ETIMEDOUT">>)

NetworkTimeout ==
  Thrown("NetworkTimeout", TRUE, "FetchError", TRUE, <<"network", "timeout", "at:", "url">>)

DnsError == Thrown("DnsError", TRUE, "Error", TRUE, <<"getaddrinfo", "ENOTFOUND", "a">>)

\* What Node's fetch throws for every network-level failure.
FetchFailed == Thrown("FetchFailed", TRUE, "TypeError", TRUE, <<"fetch", "failed">>)

\* A thrown value that is no Error (a string).
ThrownString == Thrown("ThrownString", FALSE, "", FALSE, <<>>)

\* An Error whose message is not a string.
ErrorNoMessage == Thrown("ErrorNoMessage", TRUE, "Error", FALSE, <<>>)

AllOutcomes ==
  {OkPng, OkNoLength, OkAtLimit, TooLarge, Html, NoContentType, NotFound,
   GatewayTimeout, GatewayTimeoutLower, HtmlTimeoutParam, Aborted, ConnReset,
   ConnTimedOut, NetworkTimeout, DnsError, FetchFailed, ThrownString,
   ErrorNoMessage}

OutcomeById(id) == CHOOSE o \in AllOutcomes : o.id = id

(***************************************************************************)
(* validateSingleImage, lines 39-124.                                      *)
(***************************************************************************)
NoError == [thrown |-> FALSE, isError |-> FALSE, isObject |-> FALSE, name |-> "",
            msgIsString |-> FALSE, message |-> <<>>]

\* new Error(message)
NewError(message) == [thrown |-> TRUE, isError |-> TRUE, isObject |-> TRUE,
                      name |-> "Error", msgIsString |-> TRUE, message |-> message]

\* The try block, lines 54-88, on what the fetch ended with: the error it
\* throws, or NoError when it reaches the success result.
TryBlock(o) ==
  IF o.k = "throw"
  THEN [thrown |-> TRUE, isError |-> o.isError, isObject |-> o.isError, name |-> o.name,
        msgIsString |-> o.msgIsString, message |-> o.message]
  ELSE IF ~o.ok
  THEN NewError(<<"HTTP", o.status, ":">> \o o.statusText)
  ELSE IF o.contentType = <<>> \/ Head(o.contentType) # "image/"
  THEN NewError(<<"Invalid content type:">>
                \o (IF o.contentType = <<>> THEN <<"unknown">> ELSE o.contentType))
  ELSE IF o.hasLen /\ o.len > MAX_CONTENT_LENGTH
  THEN NewError(<<"Image too large (>10MB)">>)
  ELSE NoError

\* message.includes(word)
Includes(message, word) == \E i \in DOMAIN message : message[i] = word

\* Line 91: error instanceof Error ? error.message : "Unknown error"
ErrorMessage(e) == IF e.isError THEN e.message ELSE <<"Unknown", "error">>

\* The parenthesised test of lines 95-99.
IsTransient(e) ==
  \/ Includes(ErrorMessage(e), "timeout")
  \/ Includes(ErrorMessage(e), "network")
  \/ Includes(ErrorMessage(e), "ECONNRESET")
  \/ Includes(ErrorMessage(e), "ETIMEDOUT")
  \/ (e.isObject /\ e.name = "AbortError")

\* A plausible slip: one retry too many (attempt <= RETRY_ATTEMPTS).
MayRetryOffByOne(attempt) == attempt <= RETRY_ATTEMPTS

\* Line 94: attempt < RETRY_ATTEMPTS
MayRetry(attempt) == attempt < RETRY_ATTEMPTS

\* The catch block, lines 90-123: "retry" (lines 101-106), "fail" (lines
\* 109-122) or "raise": with retries left, errorMessage.includes is called,
\* and throws a TypeError when the error's message is not a string.
CatchBlock(e, attempt) ==
  IF MayRetry(attempt) /\ e.isError /\ ~e.msgIsString THEN "raise"
  ELSE IF MayRetry(attempt) /\ IsTransient(e) THEN "retry"
  ELSE "fail"

\* Line 110 (an undefined message prints as "undefined").
FailureMessage(e) ==
  <<"Error fetching image:">>
  \o (IF e.isError /\ ~e.msgIsString THEN <<"undefined">> ELSE ErrorMessage(e))

SuccessMessage == <<"Image fetched successfully">>

\* Line 48.
CachedMessage(message) == message \o <<"(cached)">>

Result(message, valid, url) == [message |-> message, valid |-> valid, imageUrl |-> url]

NoValue == Result(<<>>, FALSE, Undefined)

\* One promise of validateSingleImage.  st: "pending" (not called yet),
\* "fetching", "backoff", "fulfilled", "rejected".  outs: what its fetches
\* ended with.  start: Date.now() at its first cache lookup.  hit: the age of
\* the cache entry it was answered from, -1 when it was not.
PendingTask ==
  [st |-> "pending", attempt |-> 0, outs |-> <<>>, start |-> -1, hit |-> -1,
   value |-> NoValue]

\* A plausible slip: the cache is looked up before the first attempt only.
AttemptLookupFirstOnly(cache, t, url, a) ==
  LET t0 == IF a = 1 THEN now ELSE t.start IN
  IF a = 1 /\ cache[url] # NoEntry /\ (now - cache[url].timestamp) < CACHE_TTL
  THEN [t EXCEPT !.st = "fulfilled", !.attempt = a, !.start = t0,
                 !.hit = now - cache[url].timestamp,
                 !.value = [message |-> cache[url].message \o <<"(cached)">>,
                            valid |-> cache[url].valid, imageUrl |-> url]]
  ELSE [t EXCEPT !.st = "fetching", !.attempt = a, !.start = t0]

\* Lines 45-57 for attempt a of the validation t of url: answered from the
\* cache, or a fetch issued.
Attempt(cache, t, url, a) ==
  LET t0 == IF a = 1 THEN now ELSE t.start IN
  IF CacheHit(cache, url, now)
  THEN [t EXCEPT !.st = "fulfilled", !.attempt = a, !.start = t0,
                 !.hit = now - cache[url].timestamp,
                 !.value = Result(CachedMessage(cache[url].message),
                                  cache[url].valid, url)]
  ELSE [t EXCEPT !.st = "fetching", !.attempt = a, !.start = t0]

\* A plausible slip: only a fulfilled promise counts as settled (Promise.all
\* read as never resolving on a rejection).
SettledFulfilledOnly(t) == t.st = "fulfilled"

Settled(t) == t.st \in {"fulfilled", "rejected"}

InFlight(t) == t.st \in {"fetching", "backoff"}

\* The entry of history for a settled task.
Record(t) == [st |-> t.st, value |-> t.value, outs |-> t.outs,
              start |-> t.start, end |-> now, hit |-> t.hit]

\* A plausible slip: only successes are stored.
CacheSetValidOnly(cache, url, valid, message) ==
  IF valid
  THEN [cache EXCEPT ![url] = [valid |-> valid, message |-> message, timestamp |-> now]]
  ELSE cache

\* imageCache.set(url, {valid, message, timestamp: Date.now()}), lines 82-86
\* and 116-120.
CacheSet(cache, url, valid, message) ==
  [cache EXCEPT ![url] = [valid |-> valid, message |-> message, timestamp |-> now]]

\* history with the tasks of new that settled in this step.
Settle(h, imgs, old, new) ==
  [u \in Urls |->
     IF \E j \in DOMAIN imgs :
          imgs[j].imageUrl = u /\ Settled(new[j]) /\ ~Settled(old[j])
     THEN Append(h[u], Record(new[CHOOSE j \in DOMAIN imgs :
                                   imgs[j].imageUrl = u /\ Settled(new[j]) /\ ~Settled(old[j])]))
     ELSE h[u]]

(***************************************************************************)
(* processImageBatch, lines 127-169.                                       *)
(***************************************************************************)
\* A plausible slip: a group one image too long.
BatchEndTooLong(p, n) == Min(p + CONCURRENT_REQUESTS + 1, n)

\* images.slice(i, i + batchSize): the group is images p+1 .. BatchEnd(p, n).
BatchEnd(p, n) == Min(p + CONCURRENT_REQUESTS, n)

\* Line 144: batch.map(image => validateSingleImage(image.imageUrl)).
Launch(cache, ts, imgs, p) ==
  [j \in DOMAIN ts |->
     IF j \in (p + 1)..BatchEnd(p, Len(imgs))
     THEN Attempt(cache, PendingTask, imgs[j].imageUrl, 1)
     ELSE ts[j]]

\* A plausible slip: the group is left as soon as one promise settles
\* (Promise.race in place of Promise.allSettled).
BatchSettlesOnFirst(ts, p, n) == \E j \in (p + 1)..BatchEnd(p, n) : Settled(ts[j])

\* Line 145: Promise.allSettled(batchPromises) resolves.
BatchSettles(ts, p, n) == \A j \in (p + 1)..BatchEnd(p, n) : Settled(ts[j])

\* A plausible slip: the group's results are pushed last first.
BatchResultsReversed(ts, imgs, p) ==
  LET n == BatchEnd(p, Len(imgs)) - p IN
  [j \in 1..n |->
     IF ts[n + p + 1 - j].st = "fulfilled" THEN ts[n + p + 1 - j].value
     ELSE Result(<<"Batch processing failed:", "TypeError">>, FALSE,
                 imgs[n + p + 1 - j].imageUrl)]

\* A plausible slip: a rejected promise pushes no result.
BatchResultsDropRejected(ts, imgs, p) ==
  LET n == BatchEnd(p, Len(imgs)) IN
  Pick([j \in 1..n |-> ts[j].value], {j \in (p + 1)..n : ts[j].st = "fulfilled"}, 1)

\* Lines 148-159: one result per promise of the group, in the group's order.
BatchResults(ts, imgs, p) ==
  [j \in 1..(BatchEnd(p, Len(imgs)) - p) |->
     IF ts[p + j].st = "fulfilled" THEN ts[p + j].value
     ELSE Result(<<"Batch processing failed:", "TypeError">>, FALSE,
                 imgs[p + j].imageUrl)]

(***************************************************************************)
(* ctx.body: an error record or the list of results.                       *)
(***************************************************************************)
NoBody == [isList |-> FALSE, message |-> "", list |-> <<>>]

ErrorBody(message) == [isList |-> FALSE, message |-> message, list |-> <<>>]

ListBody(list) == [isList |-> TRUE, message |-> "", list |-> list]

(***************************************************************************)
(* checkImages, lines 181-249.                                             *)
(***************************************************************************)
\* A plausible slip: the check of line 214 is missing.
RejectionNoValidCheck(b) ==
  IF ImagesOf(b).kind # "array" THEN "Invalid input, expected an array of images."
  ELSE IF Len(ImagesOf(b).items) = 0 THEN "No images provided."
  ELSE ""

\* Lines 189-199 and 214-218: the message of the 400 response, "" when the
\* request is accepted.
Rejection(b) ==
  IF ImagesOf(b).kind # "array" THEN "Invalid input, expected an array of images."
  ELSE IF Len(ImagesOf(b).items) = 0 THEN "No images provided."
  ELSE IF Len(ValidImages(ImagesOf(b).items)) = 0 THEN "No valid image URLs provided."
  ELSE ""

Init ==
  /\ imageCache = [u \in Urls |-> NoEntry]
  /\ now = 0
  /\ pc = [k \in InvIds |-> "idle"]
  /\ body = [k \in InvIds |-> UndefinedBody]
  /\ images = [k \in InvIds |-> <<>>]
  /\ pos = [k \in InvIds |-> 0]
  /\ tasks = [k \in InvIds |-> <<>>]
  /\ results = [k \in InvIds |-> <<>>]
  /\ ctxStatus = [k \in InvIds |-> 0]
  /\ ctxBody = [k \in InvIds |-> NoBody]
  /\ pauses = [k \in InvIds |-> 0]
  /\ calls = 0
  /\ call = [k \in InvIds |-> 0]
  /\ history = [u \in Urls |-> <<>>]
  /\ stats = NoStats
  /\ cleared = {}
  /\ unswept = [u \in Urls |-> NoEntry]

\* Invocation k of checkImages with request body b, up to its first await:
\* the sweep, the checks, the filter, the removal of duplicates and the launch
\* of the first group (lines 185-229, 138-145).
CheckImages(k, b) ==
  /\ pc[k] \in {"idle", "done"}
  /\ calls' = calls + 1
  /\ call' = [call EXCEPT ![k] = calls + 1]
  /\ body' = [body EXCEPT ![k] = b]
  /\ pos' = [pos EXCEPT ![k] = 0]
  /\ pauses' = [pauses EXCEPT ![k] = 0]
  /\ results' = [results EXCEPT ![k] = <<>>]
  /\ imageCache' = CleanupCache(imageCache, now)
  /\ now' = now
  /\ UNCHANGED <<stats, cleared, unswept>>
  /\ IF Rejection(b) # ""
     THEN /\ pc' = [pc EXCEPT ![k] = "done"]
          /\ ctxStatus' = [ctxStatus EXCEPT ![k] = 400]
          /\ ctxBody' = [ctxBody EXCEPT ![k] = ErrorBody(Rejection(b))]
          /\ images' = [images EXCEPT ![k] = <<>>]
          /\ tasks' = [tasks EXCEPT ![k] = <<>>]
          /\ history' = history
     ELSE LET unique == UniqueImages(ValidImages(ImagesOf(b).items))
              fresh == [j \in DOMAIN unique |-> PendingTask]
              launched == Launch(imageCache', fresh, unique, 0)
          IN  /\ images' = [images EXCEPT ![k] = unique]
              /\ tasks' = [tasks EXCEPT ![k] = launched]
              /\ history' = Settle(history, unique, fresh, launched)
              /\ IF Len(unique) = 0
                 THEN \* the loop of line 138 is not entered
                      /\ pc' = [pc EXCEPT ![k] = "done"]
                      /\ ctxStatus' = [ctxStatus EXCEPT ![k] = 200]
                      /\ ctxBody' = [ctxBody EXCEPT ![k] = ListBody(<<>>)]
                 ELSE /\ pc' = [pc EXCEPT ![k] = "batch"]
                      /\ ctxStatus' = [ctxStatus EXCEPT ![k] = 0]
                      /\ ctxBody' = [ctxBody EXCEPT ![k] = NoBody]

\* The fetch of task j of invocation k ends with o, and validateSingleImage
\* runs on from line 57 to its return, its throw or the await of line 104.
FetchSettles(k, j, o) ==
  /\ pc[k] = "batch"
  /\ j \in DOMAIN tasks[k]
  /\ tasks[k][j].st = "fetching"
  /\ LET t == [tasks[k][j] EXCEPT !.outs = Append(@, o.id)]
         url == images[k][j].imageUrl
         e == TryBlock(o)
         how == IF e = NoError THEN "success" ELSE CatchBlock(e, t.attempt)
         new == CASE how = "success" ->
                       [t EXCEPT !.st = "fulfilled",
                                 !.value = Result(SuccessMessage, TRUE, url)]
                  [] how = "retry" -> [t EXCEPT !.st = "backoff"]
                  [] how = "fail" ->
                       [t EXCEPT !.st = "fulfilled",
                                 !.value = Result(FailureMessage(e), FALSE, url)]
                  [] how = "raise" -> [t EXCEPT !.st = "rejected"]
     IN  /\ tasks' = [tasks EXCEPT ![k][j] = new]
         /\ imageCache' =
              CASE how = "success" -> CacheSet(imageCache, url, TRUE, SuccessMessage)
                [] how = "fail" -> CacheSet(imageCache, url, FALSE, FailureMessage(e))
                [] OTHER -> imageCache
         /\ history' = Settle(history, images[k], tasks[k], tasks'[k])
         /\ unswept' =
              CASE how = "success" -> CacheSet(unswept, url, TRUE, SuccessMessage)
                [] how = "fail" -> CacheSet(unswept, url, FALSE, FailureMessage(e))
                [] OTHER -> unswept
         /\ cleared' = IF how \in {"success", "fail"} THEN cleared \ {url} ELSE cleared
  /\ UNCHANGED <<now, pc, body, images, pos, results, ctxStatus, ctxBody, pauses,
                 calls, call, stats>>

\* The timer of line 104 fires and line 106 calls validateSingleImage again.
BackoffElapses(k, j) ==
  /\ pc[k] = "batch"
  /\ j \in DOMAIN tasks[k]
  /\ tasks[k][j].st = "backoff"
  /\ tasks' = [tasks EXCEPT ![k][j] =
                 Attempt(imageCache, @, images[k][j].imageUrl, @.attempt + 1)]
  /\ history' = Settle(history, images[k], tasks[k], tasks'[k])
  /\ UNCHANGED <<imageCache, now, pc, body, images, pos, results, ctxStatus,
                 ctxBody, pauses, calls, call, stats, cleared, unswept>>

\* Promise.allSettled resolves: lines 148-165, and lines 168, 232-239 after
\* the last group.
BatchSettled(k) ==
  /\ pc[k] = "batch"
  /\ BatchSettles(tasks[k], pos[k], Len(images[k]))
  /\ results' = [results EXCEPT ![k] = @ \o BatchResults(tasks[k], images[k], pos[k])]
  /\ IF pos[k] + CONCURRENT_REQUESTS < Len(images[k])
     THEN /\ pc' = [pc EXCEPT ![k] = "pacing"]
          /\ pauses' = [pauses EXCEPT ![k] = @ + 1]
          /\ UNCHANGED <<ctxStatus, ctxBody>>
     ELSE /\ pc' = [pc EXCEPT ![k] = "done"]
          /\ ctxStatus' = [ctxStatus EXCEPT ![k] = 200]
          /\ ctxBody' = [ctxBody EXCEPT ![k] = ListBody(results'[k])]
          /\ UNCHANGED pauses
  /\ UNCHANGED <<imageCache, now, body, images, pos, tasks, calls, call, history,
                 stats, cleared, unswept>>

\* The timer of line 164 fires: i += batchSize and the next group is launched.
PacingElapses(k) ==
  /\ pc[k] = "pacing"
  /\ pos' = [pos EXCEPT ![k] = @ + CONCURRENT_REQUESTS]
  /\ tasks' = [tasks EXCEPT ![k] = Launch(imageCache, @, images[k], pos'[k])]
  /\ history' = Settle(history, images[k], tasks[k], tasks'[k])
  /\ pc' = [pc EXCEPT ![k] = "batch"]
  /\ UNCHANGED <<imageCache, now, body, images, results, ctxStatus, ctxBody,
                 pauses, calls, call, stats, cleared, unswept>>

\* Time passes: Date.now() grows by d.
Tick(d) ==
  /\ now + d <= MaxTicks * CACHE_TTL
  /\ now' = now + d
  /\ UNCHANGED <<imageCache, pc, body, images, pos, tasks, results, ctxStatus,
                 ctxBody, pauses, calls, call, history, stats, cleared, unswept>>

\* A call of getCacheStats (lines 258-269).
CacheStats ==
  /\ stats' = GetCacheStats(imageCache, now)
  /\ UNCHANGED <<imageCache, now, pc, body, images, pos, tasks, results, ctxStatus,
                 ctxBody, pauses, calls, call, history, cleared, unswept>>

\* A call of clearImageCache (lines 252-255).
ClearImageCache ==
  /\ imageCache' = ClearedCache
  /\ cleared' = Urls
  /\ unswept' = ClearedCache
  /\ UNCHANGED <<now, pc, body, images, pos, tasks, results, ctxStatus, ctxBody,
                 pauses, calls, call, history, stats>>

Idle == \A k \in InvIds : pc[k] \in {"idle", "done"}

\* A whole TTL passes between two invocations.
TickIdle == Idle /\ calls = 1 /\ Tick(CACHE_TTL)

(***************************************************************************)
(* Spec: the engine.  One invocation at a time: a first request of one URL *)
(* fills the cache, then time may pass, then comes the request under       *)
(* study, any body of up to MaxLen entries or one of some longer ones, of  *)
(* two groups.                                                             *)
(***************************************************************************)
BoundedSeq(S, n) == UNION {[1..m -> S] : m \in 0..n}

Entries == {Image(U1), Image(U1Upper), Image(NotAUrl), Image(Undefined)}

LongBodies ==
  { <<Image(U2), Image(U3), Image(U1)>>,
    <<Image(U1), Image(U2), Image(U3), Image(U4)>>,
    <<Image(U3), Image(NotAUrl), Image(U1), Image(U3), Image(U2), Image(U4), Image(U1)>>,
    <<Image(EmptyStr), Image(U2), Image(Number7), Image(U2), Image(Undefined), Image(U1)>>,
    <<Image(Undefined), Image(EmptyStr), Image(Number7), Image(NotAUrl)>> }

Bodies ==
  {ObjectBody, UndefinedBody}
  \cup {ArrayBody(s) : s \in BoundedSeq(Entries, MaxLen) \cup LongBodies}

FirstBodies == {ArrayBody(<<Image(U1)>>)}

EngineOutcomes == {OkPng, NotFound, Aborted, ErrorNoMessage}

Request(k) ==
  /\ Idle
  /\ \/ calls = 0 /\ \E b \in FirstBodies : CheckImages(k, b)
     \/ calls = 1 /\ \E b \in Bodies : CheckImages(k, b)

Next ==
  \/ Request(1)
  \/ \E j \in 1..7, o \in EngineOutcomes : FetchSettles(1, j, o)
  \/ \E j \in 1..7 : BackoffElapses(1, j)
  \/ BatchSettled(1)
  \/ PacingElapses(1)
  \/ TickIdle

Spec == Init /\ [][Next]_vars

(***************************************************************************)
(* SpecValidate: one validation of one URL from the initial state, with    *)
(* every outcome of a fetch, while time passes.                            *)
(***************************************************************************)
RequestOnce == calls = 0 /\ CheckImages(1, ArrayBody(<<Image(U1)>>))

NextValidate ==
  \/ RequestOnce
  \/ \E o \in AllOutcomes : FetchSettles(1, 1, o)
  \/ BackoffElapses(1, 1)
  \/ BatchSettled(1)
  \/ Tick(CACHE_TTL \div 2)

SpecValidate == Init /\ [][NextValidate]_vars

(***************************************************************************)
(* SpecRevalidate: the same URL validated again and again, one invocation  *)
(* after the other, while time passes in steps of half the TTL.            *)
(***************************************************************************)
RequestAgain == Idle /\ calls < MaxCalls /\ CheckImages(1, ArrayBody(<<Image(U1)>>))

NextRevalidate ==
  \/ RequestAgain
  \/ \E o \in EngineOutcomes : FetchSettles(1, 1, o)
  \/ BackoffElapses(1, 1)
  \/ BatchSettled(1)
  \/ Tick(CACHE_TTL \div 2)

SpecRevalidate == Init /\ [][NextRevalidate]_vars

(***************************************************************************)
(* What the claims speak of, stated on the request and the response alone. *)
(***************************************************************************)
\* A well-formed URL: a non-empty string that is an absolute URL.
WellFormed(v) == v.t = "string" /\ v # EmptyStr /\ v.scheme # ""

\* The entries of the request of invocation k ("<<>>" when it is no array).
Items(k) == IF body[k].kind = "array" THEN body[k].items ELSE <<>>

\* The distinct well-formed URLs of the request of invocation k.
WellFormedUrls(k) ==
  {Items(k)[i].imageUrl : i \in {j \in DOMAIN Items(k) : WellFormed(Items(k)[j].imageUrl)}}

\* Where a URL first occurs in the request of invocation k.
FirstAt(k, u) ==
  CHOOSE i \in DOMAIN Items(k) :
    Items(k)[i].imageUrl = u /\ \A j \in 1..(i - 1) : Items(k)[j].imageUrl # u

\* The place of u in the deduplicated request: how many distinct well-formed
\* URLs occur first at or before the first occurrence of u.
Rank(k, u) ==
  Cardinality({w \in WellFormedUrls(k) : FirstAt(k, w) <= FirstAt(k, u)})

Returned(k) == pc[k] = "done" /\ ctxBody[k].isList

\* The ids of the outcomes that pass the checks of lines 59-73.
SuccessIds == {"OkPng", "OkNoLength", "OkAtLimit"}

\* C1: the returned list has its entries in the order of the deduplicated
\* request: its i-th entry is for the i-th distinct well-formed URL of the
\* request, whatever the order in which the fetches of a group ended.
C1_OrderPreserved ==
  \A k \in InvIds :
    Returned(k) =>
      \A i \in 1..Cardinality(WellFormedUrls(k)) :
        /\ i \in DOMAIN ctxBody[k].list
        /\ ctxBody[k].list[i].imageUrl \in WellFormedUrls(k)
        /\ Rank(k, ctxBody[k].list[i].imageUrl) = i

\* C1's case: a list of two groups returned for a request of 7 entries with
\* duplicates and a malformed entry, in which the first validation of the
\* first group needed two fetches and its siblings one.
C1_Witness ==
  /\ Returned(1)
  /\ Len(Items(1)) = 7
  /\ Len(ctxBody[1].list) = 4
  /\ Len(tasks[1][1].outs) = 2
  /\ Len(tasks[1][2].outs) = 1
  /\ Len(tasks[1][3].outs) = 1
  /\ ctxBody[1].list[1].imageUrl = U3
  /\ ctxBody[1].list[4].imageUrl = U4

\* C2: the returned list has one entry per distinct well-formed URL of the
\* request: none for an entry whose imageUrl is missing, not a string, empty
\* or unparseable, and none for a second occurrence of the same string.
C2_OnePerDistinctUrl ==
  \A k \in InvIds :
    Returned(k) =>
      /\ Len(ctxBody[k].list) = Cardinality(WellFormedUrls(k))
      /\ \A i \in DOMAIN ctxBody[k].list :
           ctxBody[k].list[i].imageUrl \in WellFormedUrls(k)
      /\ \A i, j \in DOMAIN ctxBody[k].list :
           ctxBody[k].list[i].imageUrl = ctxBody[k].list[j].imageUrl => i = j

\* C2's case: a returned list shorter than the request, which held URLs that
\* differ in the case of the scheme only.
C2_Witness ==
  /\ Returned(1)
  /\ Len(ctxBody[1].list) = 2
  /\ Len(Items(1)) = 3
  /\ {ctxBody[1].list[1].imageUrl, ctxBody[1].list[2].imageUrl} = {U1, U1Upper}

\* A request with nothing to validate: no array, an empty array, or an array
\* with no well-formed URL.
Degenerate(b) ==
  \/ b.kind # "array"
  \/ Len(b.items) = 0
  \/ \A i \in DOMAIN b.items : ~WellFormed(b.items[i].imageUrl)

\* C3: a request that is no array, is empty or holds no well-formed URL ends
\* with status 400 and one error record, no list; the step that handles it
\* starts no validation (so no fetch) and writes no cache entry.
C3_DegenerateRejected ==
  /\ [](\A k \in InvIds :
          (pc[k] = "done" /\ call[k] > 0 /\ Degenerate(body[k])) =>
             /\ ctxStatus[k] = 400
             /\ ~ctxBody[k].isList
             /\ ctxBody[k].message # ""
             /\ tasks[k] = <<>>)
  /\ [][\A k \in InvIds :
          (call'[k] # call[k] /\ Degenerate(body'[k])) =>
             /\ pc'[k] = "done"
             /\ tasks'[k] = <<>>
             /\ history' = history
             /\ \A u \in Urls : imageCache'[u] \in {imageCache[u], NoEntry}]_vars

\* C3's case: a non-empty array with no well-formed URL rejected while the
\* cache holds an entry.
C3_Witness ==
  /\ pc[1] = "done"
  /\ ctxStatus[1] = 400
  /\ Len(Items(1)) = 2
  /\ Degenerate(body[1])
  /\ imageCache[U1] # NoEntry

\* The validations of invocation k that are in flight: a fetch issued and not
\* answered, or the wait before the retry.
InFlightOf(k) == {j \in DOMAIN tasks[k] : InFlight(tasks[k][j])}

\* C4: at most 3 validations of one invocation are in flight at a time,
\* retries and their backoff waits included.
C4_ConcurrencyCeiling ==
  \A k \in InvIds : Cardinality(InFlightOf(k)) <= 3

\* C4's case: three validations in flight, one of them waiting to retry,
\* while a fourth URL of the request waits for the next group.
C4_Witness ==
  /\ Cardinality(InFlightOf(1)) = 3
  /\ \E j \in DOMAIN tasks[1] : tasks[1][j].st = "backoff"
  /\ \E j \in DOMAIN tasks[1] : tasks[1][j].st = "pending"

\* The fetches a validation has issued.
Fetches(t) == Len(t.outs) + (IF t.st = "fetching" THEN 1 ELSE 0)

ContentFailureIds ==
  {"TooLarge", "Html", "NoContentType", "NotFound", "GatewayTimeout",
   "GatewayTimeoutLower", "HtmlTimeoutParam"}

\* C6: a validation whose fetch was answered by a response that fails the
\* content checks is over after that one fetch, with valid: false, whatever
\* the status text and the content type of the response.
C6_ContentFailureNotRetried ==
  \A k \in InvIds : \A j \in DOMAIN tasks[k] :
    (Len(tasks[k][j].outs) >= 1 /\ tasks[k][j].outs[1] \in ContentFailureIds)
      => /\ tasks[k][j].st = "fulfilled"
         /\ ~tasks[k][j].value.valid
         /\ Fetches(tasks[k][j]) = 1

\* The ids of the transient failures: timeout or abort, connection reset,
\* connection timeout, DNS error, other network-level errors.
TransientIds ==
  {"Aborted", "ConnReset", "ConnTimedOut", "DnsError", "NetworkTimeout", "FetchFailed"}

\* C7: a validation whose first fetch failed with a transient failure is not
\* over: it waits and fetches the URL a second time.
C7_TransientRetried ==
  \A k \in InvIds : \A j \in DOMAIN tasks[k] :
    (Len(tasks[k][j].outs) >= 1 /\ tasks[k][j].outs[1] \in TransientIds)
      => \/ tasks[k][j].st = "backoff"
         \/ Fetches(tasks[k][j]) = 2

\* A validation that fetched and returned a result (which it stored).
Live(h) == h.st = "fulfilled" /\ h.hit = -1

\* Two validations of u, one after the other, the first live, the second
\* started less than TTL after the first returned.
TwiceWithinTTL(u, i) ==
  /\ i \in DOMAIN history[u] /\ (i + 1) \in DOMAIN history[u]
  /\ Live(history[u][i])
  /\ history[u][i + 1].start - history[u][i].end < CACHE_TTL

\* The second of two validations is answered from the cache, with the valid
\* value of the first and a message marked as cache-derived.
AnsweredFromCache(first, second) ==
  /\ second.st = "fulfilled"
  /\ second.hit >= 0
  /\ second.outs = <<>>
  /\ second.value.valid = first.value.valid
  /\ second.value.message = first.value.message \o <<"(cached)">>

C9_StaleNeverServed ==
  /\ \A k \in InvIds : \A j \in DOMAIN tasks[k] : tasks[k][j].hit < CACHE_TTL
  /\ \A u \in Urls : \A i \in DOMAIN history[u] :
       /\ history[u][i].hit < CACHE_TTL
       /\ (/\ (i + 1) \in DOMAIN history[u]
           /\ Live(history[u][i])
           /\ history[u][i + 1].start - history[u][i].end >= CACHE_TTL)
          => /\ history[u][i + 1].hit = -1
             /\ Len(history[u][i + 1].outs) >= 1
             /\ Len(history[u][i].outs) + Len(history[u][i + 1].outs) >= 2

\* C9's case: the second validation of a URL has issued its fetch while the
\* cache still holds the entry of the first, now exactly TTL old (the sweep
\* removes only older ones).
C9_Witness ==
  /\ Len(history[U1]) = 1
  /\ Live(history[U1][1])
  /\ call[1] = 2
  /\ tasks[1][1].st = "fetching"
  /\ imageCache[U1] # NoEntry
  /\ now - imageCache[U1].timestamp = CACHE_TTL

\* How validation j of invocation k failed, "" when it did not: its promise
\* rejected, or its last fetch did not pass the checks.
Failed(k, j) ==
  \/ tasks[k][j].st = "rejected"
  \/ /\ tasks[k][j].st = "fulfilled" /\ tasks[k][j].hit = -1
     /\ tasks[k][j].outs[Len(tasks[k][j].outs)] \notin SuccessIds

\* C10: whatever fails for one URL (a content failure, a transient failure
\* after the last attempt, an exception out of the validation), the invocation
\* returns status 200 and a list with one result per URL: valid: false and a
\* message for the failed URL, and its own result for every other URL of the
\* group and of the later groups.
C10_FailureIsolated ==
  \A k \in InvIds :
    (pc[k] = "done" /\ call[k] > 0 /\ ~Degenerate(body[k])) =>
      /\ ctxStatus[k] = 200
      /\ ctxBody[k].isList
      /\ Len(ctxBody[k].list) = Len(images[k])
      /\ \A j \in DOMAIN images[k] :
           /\ ctxBody[k].list[j].imageUrl = images[k][j].imageUrl
           /\ Failed(k, j) => /\ ~ctxBody[k].list[j].valid
                              /\ ctxBody[k].list[j].message # <<>>
           /\ tasks[k][j].st = "fulfilled" => ctxBody[k].list[j] = tasks[k][j].value
           /\ (tasks[k][j].st = "fulfilled" /\ tasks[k][j].hit = -1 /\ ~Failed(k, j))
                => ctxBody[k].list[j].valid

\* C10's case: in the first group one validation threw, one failed on the
\* content, one failed after its retry; the URL of the second group is valid.
C10_Witness ==
  /\ pc[1] = "done"
  /\ Len(images[1]) = 4
  /\ \E a, b, c \in 1..3 :
       /\ tasks[1][a].st = "rejected"
       /\ tasks[1][b].outs = <<"NotFound">>
       /\ tasks[1][c].outs = <<"Aborted", "Aborted">>
  /\ tasks[1][4].outs = <<"OkPng">>
  /\ ctxBody[1].list[4].valid

(***************************************************************************)
(* SpecLive: two invocations one after the other, of requests of one or    *)
(* two groups, where every fetch that was issued ends, every timer that    *)
(* was set fires and every continuation that is ready runs.                *)
(***************************************************************************)
LiveBodies ==
  { ArrayBody(<<Image(U1), Image(U2), Image(U3), Image(U4)>>),
    ArrayBody(<<Image(U2), Image(NotAUrl), Image(U2)>>) }

\* A first invocation, and a second one that finds what the first one left
\* in the cache.
RequestLive ==
  /\ Idle
  /\ \/ calls = 0 /\ \E b \in LiveBodies : CheckImages(1, b)
     \/ calls = 1 /\ \E b \in LiveBodies : CheckImages(1, b)

NextLive ==
  \/ RequestLive
  \/ \E j \in 1..4, o \in EngineOutcomes : FetchSettles(1, j, o)
  \/ \E j \in 1..4 : BackoffElapses(1, j)
  \/ BatchSettled(1)
  \/ PacingElapses(1)

\* fetch is bounded by the timer of line 25, so every fetch ends; the timers
\* of lines 104 and 164 fire; the event loop runs every ready continuation.
Fairness ==
  /\ \A j \in 1..4 : WF_vars(\E o \in EngineOutcomes : FetchSettles(1, j, o))
  /\ \A j \in 1..4 : WF_vars(BackoffElapses(1, j))
  /\ WF_vars(BatchSettled(1))
  /\ WF_vars(PacingElapses(1))

SpecLive == Init /\ [][NextLive]_vars /\ Fairness

\* The tasks of invocation k whose URL entered validateSingleImage.
Entered(k) == {j \in DOMAIN tasks[k] : tasks[k][j].st # "pending"}

\* How many entries of the response of invocation k are for the URL u.
Reported(k, u) ==
  Cardinality({i \in DOMAIN ctxBody[k].list : ctxBody[k].list[i].imageUrl = u})

\* C11: when every fetch ends, an invocation that was given a well-formed URL
\* returns, and then every URL that entered the validator is settled and has
\* one entry in the returned list, no more and no less.
C11_EveryUrlResolvedOnce ==
  /\ (pc[1] \in {"batch", "pacing"}) ~> Returned(1)
  /\ [](pc[1] = "done" /\ WellFormedUrls(1) # {} =>
          /\ Returned(1)
          /\ Entered(1) = DOMAIN images[1]
          /\ \A j \in Entered(1) :
                /\ Settled(tasks[1][j])
                /\ Reported(1, images[1][j].imageUrl) = 1)

\* A request of two groups has returned after one validation was retried and
\* another one threw.
C11_Witness ==
  /\ Returned(1)
  /\ Len(images[1]) = 4
  /\ Len(ctxBody[1].list) = 4
  /\ \E j \in 1..4 : tasks[1][j].attempt = 2
  /\ \E j \in 1..4 : tasks[1][j].st = "rejected"

(***************************************************************************)
(* SpecOverlap: two invocations of checkImages that may overlap, as two    *)
(* requests served by the same process do: each runs from one await to the *)
(* next, and both use the one imageCache.                                  *)
(***************************************************************************)
OverlapBodies ==
  { ArrayBody(<<Image(U1)>>), ArrayBody(<<Image(U1), Image(U2)>>) }

OverlapOutcomes == {OkPng, NotFound, Aborted}

RequestOverlap(k) == calls < MaxCalls /\ \E b \in OverlapBodies : CheckImages(k, b)

NextOverlap ==
  \/ \E k \in InvIds : RequestOverlap(k)
  \/ \E k \in InvIds, j \in 1..2, o \in OverlapOutcomes : FetchSettles(k, j, o)
  \/ \E k \in InvIds, j \in 1..2 : BackoffElapses(k, j)
  \/ \E k \in InvIds : BatchSettled(k)

SpecOverlap == Init /\ [][NextOverlap]_vars

\* The validations of u that are under way: a fetch pending or a backoff
\* being waited for.
InFlightFor(u) ==
  {kj \in InvIds \X (1..2) :
     /\ kj[2] \in DOMAIN tasks[kj[1]]
     /\ images[kj[1]][kj[2]].imageUrl = u
     /\ InFlight(tasks[kj[1]][kj[2]])}

\* C12: at no time are two validations of the same URL under way, whether
\* they belong to one invocation or to two overlapping ones.
C12_NeverTwoInFlight == \A u \in Urls : Cardinality(InFlightFor(u)) <= 1

\* The validation of u that stored the entry which answered the i-th one: the
\* last live one before it.
StoredBy(u, i) ==
  history[u][CHOOSE j \in 1..(i - 1) :
               /\ Live(history[u][j])
               /\ \A l \in (j + 1)..(i - 1) : ~Live(history[u][l])]

\* C13: a validation answered from the cache returns the valid value and the
\* message that the validation which stored the entry returned.
C13_HitSameAsStored ==
  \A u \in Urls : \A i \in DOMAIN history[u] :
    history[u][i].hit >= 0 =>
      /\ history[u][i].value.valid = StoredBy(u, i).value.valid
      /\ history[u][i].value.message = StoredBy(u, i).value.message

\* What holds instead: the valid value is the stored one and the message is
\* the stored one with "(cached)" appended (line 48).
HitMarkedCached ==
  \A u \in Urls : \A i \in DOMAIN history[u] :
    history[u][i].hit >= 0 =>
      /\ history[u][i].value.valid = StoredBy(u, i).value.valid
      /\ history[u][i].value.message = CachedMessage(StoredBy(u, i).value.message)

(***************************************************************************)
(* SpecStats: two invocations one after the other while time passes in     *)
(* steps of half the TTL, and getCacheStats called at any time, also while *)
(* validations are under way.                                              *)
(***************************************************************************)
StatsOutcomes == {OkPng, NotFound}

\* The first request fills the cache with two entries; the second validates
\* one of the two URLs again.
RequestStats ==
  /\ Idle
  /\ \/ calls = 0 /\ CheckImages(1, ArrayBody(<<Image(U2), Image(U1)>>))
     \/ calls = 1 /\ CheckImages(1, ArrayBody(<<Image(U1)>>))

NextStats ==
  \/ RequestStats
  \/ \E j \in 1..2, o \in StatsOutcomes : FetchSettles(1, j, o)
  \/ BatchSettled(1)
  \/ Tick(CACHE_TTL \div 2)
  \/ CacheStats

SpecStats == Init /\ [][NextStats]_vars

\* The URLs that have an entry in the cache, and those of them whose entry is
\* younger than TTL at time t.
Cached(cache) == {u \in Urls : cache[u] # NoEntry}

Younger(cache, t) == {u \in Cached(cache) : t - cache[u].timestamp < CACHE_TTL}

\* C14: getCacheStats returns a total that is the sum of the fresh and the
\* expired counts, the fresh count is the number of entries of age below TTL,
\* the ratio is 0 when no entry is fresh, and the cache is left as it was.
C14_StatsConsistent ==
  [][CacheStats =>
       /\ imageCache' = imageCache
       /\ stats'.totalEntries = Cardinality(Cached(imageCache))
       /\ stats'.totalEntries = stats'.validEntries + stats'.expiredEntries
       /\ stats'.validEntries = Cardinality(Younger(imageCache, now))
       /\ (Younger(imageCache, now) = {} => stats'.cacheHitRatio = Zero)]_vars

\* getCacheStats has just been called on a cache of two entries, none of
\* them fresh and one exactly TTL old.
C14_Witness ==
  /\ stats = GetCacheStats(imageCache, now)
  /\ stats.totalEntries = 2
  /\ stats.validEntries = 0
  /\ stats.expiredEntries = 2
  /\ stats.cacheHitRatio = Zero
  /\ \E u \in Cached(imageCache) : now - imageCache[u].timestamp = CACHE_TTL

(***************************************************************************)
(* SpecClear: invocations one after the other while time passes in steps   *)
(* of half the TTL, and clearImageCache called at any time, also while     *)
(* validations are under way.                                              *)
(***************************************************************************)
ClearOutcomes == {OkPng, Aborted}

\* The first request fills the cache with two entries; the later ones
\* validate one of the two URLs again.
RequestClear ==
  /\ Idle
  /\ \/ calls = 0 /\ CheckImages(1, ArrayBody(<<Image(U2), Image(U1)>>))
     \/ calls > 0 /\ calls < MaxCalls /\ CheckImages(1, ArrayBody(<<Image(U1)>>))

NextClear ==
  \/ RequestClear
  \/ \E j \in 1..2, o \in ClearOutcomes : FetchSettles(1, j, o)
  \/ \E j \in 1..2 : BackoffElapses(1, j)
  \/ BatchSettled(1)
  \/ Tick(CACHE_TTL \div 2)
  \/ ClearImageCache

SpecClear == Init /\ [][NextClear]_vars

\* In this step validation j of invocation k begins an attempt: its first one
\* or the one after a backoff.
Starts(k, j) ==
  /\ j \in DOMAIN tasks'[k]
  /\ tasks'[k][j].attempt >= 1
  /\ \/ call'[k] # call[k]
     \/ tasks'[k][j].attempt # tasks[k][j].attempt

\* C15: clearImageCache leaves the cache empty, whatever the age of its
\* entries, and an attempt to validate a URL that begins after it, before the
\* URL is stored again, finds no entry and issues a fetch.
C15_ClearDropsAll ==
  /\ [][ClearImageCache => \A u \in Urls : imageCache'[u] = NoEntry]_vars
  /\ [](\A u \in cleared : imageCache[u] = NoEntry)
  /\ [][\A k \in InvIds : \A j \in 1..2 :
          (Starts(k, j) /\ images'[k][j].imageUrl \in cleared) =>
             /\ tasks'[k][j].st = "fetching"
             /\ tasks'[k][j].hit = -1]_vars

\* A URL was validated live, the cache was cleared at once, and the next
\* validation of the URL, with no time passed, has issued a fetch.
C15_Witness ==
  /\ Len(history[U1]) = 1
  /\ Live(history[U1][1])
  /\ now = history[U1][1].end
  /\ U1 \in cleared
  /\ call[1] = 2
  /\ images[1] = <<Image(U1)>>
  /\ tasks[1][1].st = "fetching"

(***************************************************************************)
(* SpecPacing: one invocation for 1 to 7 distinct URLs, of one, two or     *)
(* three groups, each fetch ending well or being aborted.                  *)
(***************************************************************************)
SevenUrls == <<U1, U2, U3, U4, U5, U6, U7>>

PacingBodies ==
  {ArrayBody([i \in 1..n |-> Image(SevenUrls[i])]) : n \in 1..Len(SevenUrls)}

PacingOutcomes == {OkPng, Aborted}

RequestPacing == calls = 0 /\ \E b \in PacingBodies : CheckImages(1, b)

NextPacing ==
  \/ RequestPacing
  \/ \E j \in 1..Len(SevenUrls), o \in PacingOutcomes : FetchSettles(1, j, o)
  \/ \E j \in 1..Len(SevenUrls) : BackoffElapses(1, j)
  \/ BatchSettled(1)
  \/ PacingElapses(1)

SpecPacing == Init /\ [][NextPacing]_vars

\* The group of the j-th URL of the deduplicated request: 0, 1, 2, ...
GroupOf(j) == (j - 1) \div CONCURRENT_REQUESTS

\* The number of groups for n URLs: n / 3 rounded up.
Groups(n) == (n + CONCURRENT_REQUESTS - 1) \div CONCURRENT_REQUESTS

\* C16: a validation of a later group has not started while one of an
\* earlier group is not settled, retries included; a pacing delay is taken
\* only when a group follows; an invocation for N URLs has taken
\* ceil(N / 3) - 1 pacing delays when it returns.
C16_GroupsInTurnAndPaced ==
  /\ \A i, j \in DOMAIN tasks[1] :
       (GroupOf(i) < GroupOf(j) /\ tasks[1][j].st # "pending") => Settled(tasks[1][i])
  /\ pc[1] = "pacing" =>
       \E j \in DOMAIN tasks[1] : tasks[1][j].st = "pending"
  /\ Returned(1) => pauses[1] = Groups(Cardinality(WellFormedUrls(1))) - 1

\* An invocation for 7 URLs has returned after 2 pacing delays, a validation
\* of its first group having been retried.
C16_Witness ==
  /\ Returned(1)
  /\ Cardinality(WellFormedUrls(1)) = 7
  /\ pauses[1] = 2
  /\ Len(tasks[1][2].outs) = 2

\* In this step validation j of invocation k goes into the state st.
Becomes(k, j, st) ==
  /\ call'[k] = call[k]
  /\ j \in DOMAIN tasks[k]
  /\ tasks[k][j].st # st
  /\ tasks'[k][j].st = st

\* C17: in the step in which a validation returns a result it did not take
\* from the cache, the cache holds for its URL the valid value and the message
\* of that result, with the time of the step; in the step in which a failed
\* attempt goes into its backoff, the cache is not written.
C17_StoredWhenReturned ==
  [][\A k \in InvIds : \A j \in DOMAIN tasks[k] :
       /\ (Becomes(k, j, "fulfilled") /\ tasks'[k][j].hit = -1) =>
            imageCache'[images[k][j].imageUrl] =
              [valid |-> tasks'[k][j].value.valid,
               message |-> tasks'[k][j].value.message,
               timestamp |-> now]
       /\ Becomes(k, j, "backoff") => imageCache' = imageCache]_vars

\* A validation whose first attempt was aborted, leaving the cache without
\* an entry, has returned the failure of its second attempt, which the cache
\* now holds.
C17_Witness ==
  /\ pc[1] = "batch"
  /\ tasks[1][1].st = "fulfilled"
  /\ tasks[1][1].outs = <<"Aborted", "NotFound">>
  /\ ~tasks[1][1].value.valid
  /\ imageCache[U1].message = tasks[1][1].value.message
  /\ ~imageCache[U1].valid

\* What cleanupCache is to leave of the cache c at time t: the entries of age
\* TTL or less, as they are.
SweptOf(c, t) ==
  [u \in Urls |-> IF c[u] # NoEntry /\ t - c[u].timestamp > CACHE_TTL THEN NoEntry ELSE c[u]]

\* What a lookup of u in the cache c returns now: the entry, or NoEntry for
\* a miss.
Lookup(c, u) == IF c[u] # NoEntry /\ now - c[u].timestamp < CACHE_TTL THEN c[u] ELSE NoEntry

\* C18: the sweep at the start of an invocation removes the entries older
\* than TTL and no other, and changes none; and the program that never sweeps
\* does the same: at all times a lookup in the cache that was never swept
\* returns what the lookup in the swept one returns, and every attempt that
\* begins takes from it the same cached result or issues the same fetch.
C18_SweepExactAndNeedless ==
  /\ [][calls' # calls => imageCache' = SweptOf(imageCache, now)]_vars
  /\ [](\A u \in Urls : Lookup(imageCache, u) = Lookup(unswept, u))
  /\ [][\A k \in InvIds : \A j \in 1..7 :
          Starts(k, j) =>
            tasks'[k][j] =
              Attempt(unswept,
                      IF tasks'[k][j].attempt = 1 THEN PendingTask ELSE tasks[k][j],
                      images'[k][j].imageUrl, tasks'[k][j].attempt)]_vars

\* The second invocation has swept the entry of U1, two TTL old, which the
\* cache that was never swept still holds, and has issued a fetch for U1.
C18_Witness ==
  /\ calls = 2
  /\ imageCache[U1] = NoEntry
  /\ unswept[U1] # NoEntry
  /\ now - unswept[U1].timestamp > CACHE_TTL
  /\ \E j \in DOMAIN tasks[1] : images[1][j].imageUrl = U1 /\ tasks[1][j].st = "fetching"

(***************************************************************************)
(* SpecHits: the same URL validated up to MaxRepeats times, one invocation *)
(* after the other, while time passes in steps of half the TTL.            *)
(***************************************************************************)
HitOutcomes == {OkPng, NotFound}

RequestHit == Idle /\ calls < MaxRepeats /\ CheckImages(1, ArrayBody(<<Image(U1)>>))

NextHits ==
  \/ RequestHit
  \/ \E o \in HitOutcomes : FetchSettles(1, 1, o)
  \/ BatchSettled(1)
  \/ Tick(CACHE_TTL \div 2)

SpecHits == Init /\ [][NextHits]_vars

\* C19: the step in which a validation is answered from the cache leaves the
\* entry as it was, timestamp included; so the age of the entry at a hit is
\* the time since the live validation that stored it, whatever hits came in
\* between, and no validation is answered from it TTL or more after that one.
C19_HitLeavesEntry ==
  /\ [][\A k \in InvIds : \A j \in 1..7 :
          (Starts(k, j) /\ tasks'[k][j].hit >= 0) =>
             /\ imageCache[images'[k][j].imageUrl] # NoEntry
             /\ imageCache'[images'[k][j].imageUrl] = imageCache[images'[k][j].imageUrl]]_vars
  /\ [](\A u \in Urls : \A i \in DOMAIN history[u] :
          history[u][i].hit >= 0 =>
             /\ history[u][i].hit = history[u][i].start - StoredBy(u, i).end
             /\ history[u][i].start - StoredBy(u, i).end < CACHE_TTL)

\* A live validation of U1, two hits within the next half TTL, and, TTL after
\* the live one, a fourth validation that has issued a fetch while the cache
\* still holds the entry with the timestamp of the first.
C19_Witness ==
  /\ Len(history[U1]) = 3
  /\ Live(history[U1][1])
  /\ history[U1][2].hit >= 0
  /\ history[U1][3].hit = CACHE_TTL \div 2
  /\ call[1] = 4
  /\ tasks[1][1].st = "fetching"
  /\ now - history[U1][1].end = CACHE_TTL
  /\ imageCache[U1].timestamp = history[U1][1].end

\* C20: when the backoff of a validation ends, the cache is looked up again:
\* if it now holds a fresh entry for the URL, stored meanwhile by another
\* invocation, the validation returns that entry's valid value and message,
\* marked as cached, after the one fetch it had issued, and the cache is left
\* as it was; if not, a second fetch is issued.
C20_RetryLooksUpAgain ==
  [][\A k \in InvIds : \A j \in 1..2 :
       (/\ call'[k] = call[k]
        /\ j \in DOMAIN tasks[k]
        /\ tasks[k][j].st = "backoff"
        /\ tasks'[k][j].st # "backoff") =>
         LET u == images[k][j].imageUrl IN
         IF imageCache[u] # NoEntry /\ now - imageCache[u].timestamp < CACHE_TTL
         THEN /\ tasks'[k][j].st = "fulfilled"
              /\ tasks'[k][j].value =
                   [message |-> imageCache[u].message \o <<"(cached)">>,
                    valid |-> imageCache[u].valid, imageUrl |-> u]
              /\ tasks'[k][j].outs = tasks[k][j].outs
              /\ Len(tasks'[k][j].outs) = 1
              /\ imageCache' = imageCache
         ELSE tasks'[k][j].st = "fetching"]_vars

\* The fetch of invocation 1 for U1 was aborted; while it waited, invocation
\* 2 fetched U1 and stored a success; the retry of invocation 1 was answered
\* from that entry after its one fetch.
C20_Witness ==
  /\ images[1] = <<Image(U1)>> /\ images[2] = <<Image(U1)>>
  /\ tasks[1][1].st = "fulfilled"
  /\ tasks[1][1].attempt = 2
  /\ tasks[1][1].outs = <<"Aborted">>
  /\ tasks[1][1].hit >= 0
  /\ tasks[1][1].value.valid
  /\ tasks[2][1].st = "fulfilled"
  /\ tasks[2][1].outs = <<"OkPng">>
  /\ imageCache[U1].valid

====
